---- MODULE Spec2Model ----
(***************************************************************************)
(* Model of the weather proxy service in src/main.py: the two request      *)
(* handlers get_forecast and get_summary, the coordinate validator and the *)
(* solar energy estimator.                                                 *)
(*                                                                         *)
(* One behaviour is one HTTP request.  The handler is cut into actions at  *)
(* its suspension points (the awaited outbound calls); everything between  *)
(* two awaits is one action.                                               *)
(*                                                                         *)
(* Number representation: coordinates are whole degrees, temperatures and  *)
(* pressures are integers, sunshine durations are whole seconds.  Values   *)
(* the code rounds to two decimals (solar_energy_kwh, avg_sunshine_hours,  *)
(* avg_pressure) are kept in hundredths, as integers.  Arithmetic is exact  *)
(* (fractions), and round(x, 2) is Round2: the nearest hundredth, a tie     *)
(* going to the even one.  On the payloads below the only ties are          *)
(* multiples of 1/8, which a float holds exactly, so that Round2 gives what *)
(* the float computation of the source gives.                               *)
(***************************************************************************)
EXTENDS Integers, Sequences, FiniteSets, TLC

VARIABLES
    endpoint,     \* "none" | "forecast" | "summary": the route of the request
    lat, lon,     \* the query parameters of the request
    pc,           \* position of the handler coroutine
    log,          \* sequence of events of this request, in order
    res_daily,    \* response of the daily call (forecast: of the only call)
    res_hourly,   \* response of the hourly call
    response      \* what the client receives

vars == <<endpoint, lat, lon, pc, log, res_daily, res_hourly, response>>

-----------------------------------------------------------------------------
(* Bounds of the model *)

\* longest daily array the upstream returns
MaxDays == 8
\* largest number of distinct calendar dates in the hourly payload
MaxDates == 8

(* Constants of the program *)

ForecastDays == 7
PressureDays == 7
RainThreshold == 4
RainLo == 51
RainHi == 99

-----------------------------------------------------------------------------
(* Generic helpers *)

Min(a, b) == IF a <= b THEN a ELSE b

RECURSIVE SeqSum(_)
SeqSum(s) == IF s = <<>> THEN 0 ELSE Head(s) + SeqSum(Tail(s))

\* round(num/den, 2) in hundredths, den > 0: nearest, ties to even
Round2(num, den) ==
    LET q == (100 * num) \div den
        r == (100 * num) % den
    IN  IF 2 * r < den THEN q
        ELSE IF 2 * r > den THEN q + 1
        ELSE IF q % 2 = 0 THEN q ELSE q + 1

-----------------------------------------------------------------------------
(* Exceptions *)

Exc(class) == [class |-> class, status_code |-> 0, detail |-> ""]
NoExc == Exc("none")
HTTPException(status_code, detail) ==
    [class |-> "HTTPException", status_code |-> status_code, detail |-> detail]

\* Transport failures of client.get: connection error (DNS failure included)
\* and timeouts.  All of them derive from httpx.RequestError.
TransportErrors == {"ConnectError", "ConnectTimeout", "ReadTimeout"}

\* isinstance(exc, httpx.RequestError).  httpx.HTTPStatusError, raised by
\* raise_for_status, derives from httpx.HTTPError but not from RequestError.
IsRequestError(exc) == exc.class \in TransportErrors

-----------------------------------------------------------------------------
(* Pure functions *)

\* Variant: the bounds taken as exclusive
validate_coordinates_exclusive(la, lo) ==
    IF ~(-90 < la /\ la < 90 /\ -180 < lo /\ lo < 180)
    THEN HTTPException(400, "Invalid coordinates")
    ELSE NoExc

validate_coordinates(la, lo) ==
    IF ~(-90 <= la /\ la <= 90 /\ -180 <= lo /\ lo <= 180)
    THEN HTTPException(400, "Invalid coordinates")
    ELSE NoExc

\* POWER_KW * (sunshine_sec / 3600) * EFFICIENCY = sunshine_sec / 7200 kWh
calculate_energy(sunshine_sec) == Round2(sunshine_sec, 7200)

DailyForecast(date, weather_code, temp_min, temp_max, solar_energy_kwh) ==
    [date |-> date, weather_code |-> weather_code, temp_min |-> temp_min,
     temp_max |-> temp_max, solar_energy_kwh |-> solar_energy_kwh]

WeeklySummary(avg_pressure, avg_sunshine_hours, min_temp, max_temp, weekly_summary) ==
    [avg_pressure |-> avg_pressure, avg_sunshine_hours |-> avg_sunshine_hours,
     min_temp |-> min_temp, max_temp |-> max_temp,
     weekly_summary |-> weekly_summary]

\* Variant: only server errors raise
raise_for_status_5xx(res) ==
    IF res.status < 500 THEN NoExc ELSE Exc("HTTPStatusError")

\* res.raise_for_status(): HTTPStatusError unless the status is 2xx
raise_for_status(res) ==
    IF 200 <= res.status /\ res.status <= 299 THEN NoExc ELSE Exc("HTTPStatusError")

-----------------------------------------------------------------------------
(* What the upstream provider may answer *)

DailyKeys == {"time", "weathercode", "temperature_2m_min", "temperature_2m_max",
              "sunshine_duration"}
HourlyKeys == {"time", "pressure_msl"}

WetCodes == <<51, 98, 75>>
DryCodes == <<50, 99, 0>>

\* Length of the array under key k in a payload of n days with the given defect
ArrayLen(n, defect, k) ==
    IF defect.kind = "short" /\ defect.key = k /\ n > 0 THEN n - 1 ELSE n

\* A JSON body with a "daily" section of n days, the last r of them with a
\* rain-family weather code; a defect drops one key or shortens one array.
DailyPayload(n, r, defect) ==
    [has_section |-> TRUE,
     keys |-> IF defect.kind = "missing" THEN DailyKeys \ {defect.key} ELSE DailyKeys,
     time |-> [i \in 1..ArrayLen(n, defect, "time") |-> i],
     weathercode |->
        [i \in 1..ArrayLen(n, defect, "weathercode") |->
            IF i > n - r THEN WetCodes[(i % 3) + 1] ELSE DryCodes[(i % 3) + 1]],
     temperature_2m_min |->
        [i \in 1..ArrayLen(n, defect, "temperature_2m_min") |-> ((i * 3) % 7) - 5],
     temperature_2m_max |->
        [i \in 1..ArrayLen(n, defect, "temperature_2m_max") |-> ((i * 5) % 9) + 10],
     sunshine_duration |->
        [i \in 1..ArrayLen(n, defect, "sunshine_duration") |->
            3600 * (i - 1) + (IF i % 2 = 0 THEN 100 ELSE 0)]]

\* A JSON body without the section the handler reads (an error document)
EmptyDaily ==
    [has_section |-> FALSE, keys |-> {}, time |-> <<>>, weathercode |-> <<>>,
     temperature_2m_min |-> <<>>, temperature_2m_max |-> <<>>,
     sunshine_duration |-> <<>>]

NoDefect == [kind |-> "none", key |-> ""]
DailyDefects == {[kind |-> kd, key |-> k] : kd \in {"missing", "short"}, k \in DailyKeys}

DailyPayloads ==
    {DailyPayload(n, r, NoDefect) : n \in 0..MaxDays, r \in 0..MaxDays}
    \cup {DailyPayload(n, 0, d) : n \in 0..MaxDays, d \in DailyDefects}

Response(status, body) == [status |-> status, body |-> body]

Statuses == {200, 404, 500}

DailyResponses ==
    {Response(200, b) : b \in DailyPayloads \cup {EmptyDaily}}
    \cup {Response(s, b) : s \in Statuses \ {200},
                           b \in {EmptyDaily, DailyPayload(ForecastDays, 0, NoDefect)}}

\* Timestamps "<date>T<hour>" are pairs <<date, hour>>; dates are day numbers,
\* which order as ISO date strings do.
Timestamp(date, hour) == <<date, hour>>

\* time_str.split("T")[0]
DatePart(time_str) == time_str[1]

\* The readings of one date: one at noon on odd dates, two on even dates
\* (whose mean is then not a whole number)
DayTimes(d, rev) ==
    IF d % 2 = 1 THEN <<Timestamp(d, 12)>>
    ELSE IF rev THEN <<Timestamp(d, 18), Timestamp(d, 0)>>
    ELSE <<Timestamp(d, 0), Timestamp(d, 18)>>

Pressure(ts) == 1000 + ts[1] * ts[1] + (ts[2] \div 6)

\* The order in which the n dates arrive
DateOrder(n, order) ==
    [i \in 1..n |-> CASE order = "asc" -> i
                      [] order = "desc" -> n + 1 - i
                      [] OTHER -> ((i + (n \div 2) - 1) % n) + 1]

RECURSIVE HourlyTimes(_, _, _)
HourlyTimes(dates, i, rev) ==
    IF i > Len(dates) THEN <<>>
    ELSE DayTimes(dates[i], rev) \o HourlyTimes(dates, i + 1, rev)

HourlyOrders == {"asc", "desc", "rot"}
HourlyDefects == {"no_time", "no_pressure", "short_pressure"}

HourlyPayload(n, order, defect) ==
    LET times == HourlyTimes(DateOrder(n, order), 1, order = "desc")
        m == IF defect = "short_pressure" /\ Len(times) > 0
             THEN Len(times) - 1 ELSE Len(times)
    IN  [has_section |-> TRUE,
         keys |-> CASE defect = "no_time" -> HourlyKeys \ {"time"}
                    [] defect = "no_pressure" -> HourlyKeys \ {"pressure_msl"}
                    [] OTHER -> HourlyKeys,
         time |-> times,
         pressure_msl |-> [i \in 1..m |-> Pressure(times[i])]]

EmptyHourly ==
    [has_section |-> FALSE, keys |-> {}, time |-> <<>>, pressure_msl |-> <<>>]

NoRes == Response(0, EmptyDaily)
NoResHourly == Response(0, EmptyHourly)

HourlyPayloads ==
    {HourlyPayload(n, o, "none") : n \in 0..MaxDates, o \in HourlyOrders}
    \cup {HourlyPayload(n, "asc", d) : n \in 0..MaxDates, d \in HourlyDefects}

HourlyResponses ==
    {Response(200, b) : b \in HourlyPayloads \cup {EmptyHourly}}
    \cup {Response(s, b) : s \in Statuses \ {200},
                           b \in {EmptyHourly, HourlyPayload(PressureDays, "asc", "none")}}

\* Query parameters tried: the inclusive corners, the origin, just outside
Coordinates ==
    {<<-90, -180>>, <<90, 180>>, <<0, 0>>,
     <<-91, 0>>, <<91, 0>>, <<0, -181>>, <<0, 181>>, <<91, 181>>}

-----------------------------------------------------------------------------
(* Results of a block of code: the exception it raised (NoExc when none),   *)
(* the value it returned (a list: the forecast entries, or the one summary) *)
(* and the steps it went through.                                           *)

Raised(exc, steps) == [exc |-> exc, val |-> <<>>, steps |-> steps]
Returned(val, steps) == [exc |-> NoExc, val |-> val, steps |-> steps]

\* What the client receives when exc leaves the handler: an HTTPException is
\* rendered as its status and detail, anything else is an unhandled fault
\* (the server's bare 500).
ErrorResponse(exc) ==
    IF exc.class = "HTTPException"
    THEN [kind |-> "http_exception", status |-> exc.status_code,
          detail |-> exc.detail, body |-> <<>>]
    ELSE [kind |-> "unhandled", status |-> 500,
          detail |-> "Internal Server Error", body |-> <<>>]

OkResponse(val) == [kind |-> "ok", status |-> 200, detail |-> "", body |-> val]

NoResponse == [kind |-> "none", status |-> 0, detail |-> "", body |-> <<>>]

Finish(result) ==
    IF result.exc = NoExc THEN OkResponse(result.val) ELSE ErrorResponse(result.exc)

-----------------------------------------------------------------------------
(* get_forecast *)

\* The exception of data["daily"][key][i] (i counted from 0), if any
Subscript(data, key, i) ==
    IF ~data.has_section \/ key \notin data.keys THEN Exc("KeyError")
    ELSE IF i >= Len(data[key]) THEN Exc("IndexError")
    ELSE NoExc

\* The first exception among the five reads of iteration i, in source order
ForecastReads(data, i) ==
    LET order == <<"time", "weathercode", "temperature_2m_min",
                   "temperature_2m_max", "sunshine_duration">>
        bad == {j \in 1..Len(order) : Subscript(data, order[j], i) # NoExc}
    IN  IF bad = {} THEN NoExc
        ELSE Subscript(data, order[CHOOSE j \in bad : \A k \in bad : j <= k], i)

\* Variant: temp_min and temp_max taken from each other's array
RECURSIVE forecast_loop_swapped(_, _, _)
forecast_loop_swapped(data, i, result) ==
    IF i >= ForecastDays THEN Returned(result, <<"raise_for_status", "build">>)
    ELSE IF ForecastReads(data, i) # NoExc
    THEN Raised(ForecastReads(data, i), <<"raise_for_status", "build">>)
    ELSE forecast_loop_swapped(data, i + 1,
            Append(result,
                   DailyForecast(data["time"][i + 1],
                                 data["weathercode"][i + 1],
                                 data["temperature_2m_max"][i + 1],
                                 data["temperature_2m_min"][i + 1],
                                 calculate_energy(data["sunshine_duration"][i + 1]))))

\* for i in range(7): result.append(DailyForecast(...)); return result
RECURSIVE forecast_loop(_, _, _)
forecast_loop(data, i, result) ==
    IF i >= ForecastDays THEN Returned(result, <<"raise_for_status", "build">>)
    ELSE IF ForecastReads(data, i) # NoExc
    THEN Raised(ForecastReads(data, i), <<"raise_for_status", "build">>)
    ELSE forecast_loop(data, i + 1,
            Append(result,
                   DailyForecast(data["time"][i + 1],
                                 data["weathercode"][i + 1],
                                 data["temperature_2m_min"][i + 1],
                                 data["temperature_2m_max"][i + 1],
                                 calculate_energy(data["sunshine_duration"][i + 1]))))

\* The body of the try block after the call returned: lines 62-75
forecast_try(res) ==
    IF raise_for_status(res) # NoExc
    THEN Raised(raise_for_status(res), <<"raise_for_status">>)
    ELSE forecast_loop(res.body, 0, <<>>)

\* Variant: no except clause at all
forecast_except_none(exc) == exc

\* Variant: a catch-all that turns every exception into the 503
forecast_except_all(exc) == HTTPException(503, "External API error")

\* except httpx.RequestError: raise HTTPException(503); anything else leaves
\* the handler as it is
forecast_except(exc) ==
    IF IsRequestError(exc) THEN HTTPException(503, "External API error") ELSE exc

ForecastHandled(result) ==
    IF result.exc = NoExc THEN result
    ELSE Raised(forecast_except(result.exc), result.steps)

-----------------------------------------------------------------------------
(* get_summary *)

\* data.get("daily", {}) and data.get("hourly", {}): the keys of the section
Section(data) == IF data.has_section THEN data.keys ELSE {}

\* min(xs) and max(xs) of a non-empty list
ListMin(xs) == CHOOSE x \in {xs[i] : i \in DOMAIN xs} : \A j \in DOMAIN xs : x <= xs[j]
ListMax(xs) == CHOOSE x \in {xs[i] : i \in DOMAIN xs} : \A j \in DOMAIN xs : x >= xs[j]

\* pressure_by_day after the loop over zip(time, pressure_msl) from sample i
\* on: a dictionary from date to the list of its readings, in arrival order
RECURSIVE group_by_day(_, _, _, _)
group_by_day(time, pressure_msl, i, pressure_by_day) ==
    IF i > Min(Len(time), Len(pressure_msl)) THEN pressure_by_day
    ELSE LET date == DatePart(time[i])
             vals == IF date \in DOMAIN pressure_by_day
                     THEN pressure_by_day[date] ELSE <<>>
         IN  group_by_day(time, pressure_msl, i + 1,
                 (date :> Append(vals, pressure_msl[i])) @@ pressure_by_day)

\* The keys of sorted(pressure_by_day.items()), ascending
RECURSIVE sorted_keys(_)
sorted_keys(keys) ==
    IF keys = {} THEN <<>>
    ELSE LET least == CHOOSE k \in keys : \A o \in keys : k <= o
         IN  <<least>> \o sorted_keys(keys \ {least})

\* Variant: no slice, every day enters the average
first_days_all(keys) == keys

\* sorted(...)[:7]
first_days(keys) == SubSeq(keys, 1, Min(PressureDays, Len(keys)))

\* Exact fractions <<numerator, denominator>>
Frac(n, d) == <<n, d>>
FracAdd(x, y) == Frac(x[1] * y[2] + y[1] * x[2], x[2] * y[2])

\* sum(pressures) where pressures[j] = sum(vals) / len(vals) of the j-th day
RECURSIVE sum_of_means(_, _, _)
sum_of_means(pressure_by_day, days, j) ==
    IF j > Len(days) THEN Frac(0, 1)
    ELSE FracAdd(Frac(SeqSum(pressure_by_day[days[j]]), Len(pressure_by_day[days[j]])),
                 sum_of_means(pressure_by_day, days, j + 1))

\* The days whose means enter the average: lines 126-132
pressure_days(hourly) ==
    first_days(sorted_keys(DOMAIN group_by_day(hourly.time, hourly.pressure_msl, 1, <<>>)))

\* round(sum(pressures) / len(pressures), 2), with len(pressures) > 0
avg_pressure_of(hourly) ==
    LET pressure_by_day == group_by_day(hourly.time, hourly.pressure_msl, 1, <<>>)
        days == pressure_days(hourly)
        total == sum_of_means(pressure_by_day, days, 1)
    IN  Round2(total[1], total[2] * Len(days))

\* sum(1 for code in weathercode if code in range(51, 99))
RECURSIVE rain_days(_)
rain_days(weathercode) ==
    IF weathercode = <<>> THEN 0
    ELSE (IF Head(weathercode) \in RainLo..(RainHi - 1) THEN 1 ELSE 0)
         + rain_days(Tail(weathercode))

\* Variant: the threshold taken as exclusive
weekly_summary_of_strict(weathercode) ==
    IF rain_days(weathercode) > RainThreshold THEN "z opadami" ELSE "bez opadow"

weekly_summary_of(weathercode) ==
    IF rain_days(weathercode) >= RainThreshold THEN "z opadami" ELSE "bez opadow"

\* round(sum(s / 3600 for s in sunshine_duration) / len(sunshine_duration), 2)
avg_sunshine_of(sunshine_duration) ==
    Round2(SeqSum(sunshine_duration), 3600 * Len(sunshine_duration))

AggregateSteps == <<"raise_for_status", "presence_check", "aggregate">>

\* Lines 121-144
aggregate(daily, hourly) ==
    IF Len(daily.temperature_2m_min) = 0 THEN Raised(Exc("ValueError"), AggregateSteps)
    ELSE IF Len(daily.temperature_2m_max) = 0
    THEN Raised(Exc("ValueError"), AggregateSteps)
    ELSE IF Len(daily.sunshine_duration) = 0
    THEN Raised(Exc("ZeroDivisionError"), AggregateSteps)
    ELSE IF Len(pressure_days(hourly)) = 0
    THEN Raised(Exc("ZeroDivisionError"), AggregateSteps)
    ELSE Returned(<<WeeklySummary(avg_pressure_of(hourly),
                                  avg_sunshine_of(daily.sunshine_duration),
                                  ListMin(daily.temperature_2m_min),
                                  ListMax(daily.temperature_2m_max),
                                  weekly_summary_of(daily.weathercode))>>,
                  AggregateSteps)

\* Lines 113-119
presence_check(daily_keys, hourly_keys) ==
    IF ~({"temperature_2m_min", "temperature_2m_max", "sunshine_duration",
          "weathercode"} \subseteq daily_keys)
    THEN HTTPException(500, "Brak wymaganych danych dziennych z API.")
    ELSE IF "pressure_msl" \notin hourly_keys \/ "time" \notin hourly_keys
    THEN HTTPException(500, "Brak danych godzinowych cisnienia z API.")
    ELSE NoExc

\* The body of the try block after both calls returned: lines 105-144
summary_try(rd, rh) ==
    IF raise_for_status(rd) # NoExc
    THEN Raised(raise_for_status(rd), <<"raise_for_status">>)
    ELSE IF raise_for_status(rh) # NoExc
    THEN Raised(raise_for_status(rh), <<"raise_for_status">>)
    ELSE IF presence_check(Section(rd.body), Section(rh.body)) # NoExc
    THEN Raised(presence_check(Section(rd.body), Section(rh.body)),
                <<"raise_for_status", "presence_check">>)
    ELSE aggregate(rd.body, rh.body)

\* Variant: without the catch-all clause
summary_except_no_catch_all(exc) ==
    IF IsRequestError(exc) THEN HTTPException(503, "External API error") ELSE exc

\* except httpx.RequestError: raise HTTPException(503)
\* except Exception: raise HTTPException(500)
summary_except(exc) ==
    IF IsRequestError(exc) THEN HTTPException(503, "External API error")
    ELSE HTTPException(500, "Blad przetwarzania danych")

SummaryHandled(result) ==
    IF result.exc = NoExc THEN result
    ELSE Raised(summary_except(result.exc), result.steps)

-----------------------------------------------------------------------------
(* The request as a state machine *)

Init ==
    /\ endpoint = "none"
    /\ lat = 0
    /\ lon = 0
    /\ pc = "idle"
    /\ log = <<>>
    /\ res_daily = NoRes
    /\ res_hourly = NoResHourly
    /\ response = NoResponse

\* GET /forecast?lat=..&lon=..: lines 45-61, up to the awaited call
ForecastRequest ==
    /\ pc = "idle"
    /\ \E c \in Coordinates :
        /\ endpoint' = "forecast"
        /\ lat' = c[1]
        /\ lon' = c[2]
        /\ IF validate_coordinates(c[1], c[2]) # NoExc
           THEN /\ response' = ErrorResponse(validate_coordinates(c[1], c[2]))
                /\ pc' = "done"
                /\ log' = <<"validate">>
           ELSE /\ response' = response
                /\ pc' = "forecast_get"
                /\ log' = <<"validate", "call:forecast">>
    /\ UNCHANGED <<res_daily, res_hourly>>

\* client.get raises a transport error: line 61, then lines 76-77
ForecastTransportError ==
    /\ pc = "forecast_get"
    /\ \E cls \in TransportErrors :
        response' = Finish(ForecastHandled(Raised(Exc(cls), <<>>)))
    /\ log' = log \o <<"fail:forecast">>
    /\ pc' = "done"
    /\ UNCHANGED <<endpoint, lat, lon, res_daily, res_hourly>>

\* client.get returns a response: lines 61-77
ForecastResponse ==
    /\ pc = "forecast_get"
    /\ \E res \in DailyResponses :
        LET result == ForecastHandled(forecast_try(res))
        IN  /\ res_daily' = res
            /\ log' = log \o <<"done:forecast">> \o result.steps
            /\ response' = Finish(result)
    /\ pc' = "done"
    /\ UNCHANGED <<endpoint, lat, lon, res_hourly>>

\* GET /summary?lat=..&lon=..: lines 80-103, up to the first awaited call
SummaryRequest ==
    /\ pc = "idle"
    /\ \E c \in Coordinates :
        /\ endpoint' = "summary"
        /\ lat' = c[1]
        /\ lon' = c[2]
        /\ IF validate_coordinates(c[1], c[2]) # NoExc
           THEN /\ response' = ErrorResponse(validate_coordinates(c[1], c[2]))
                /\ pc' = "done"
                /\ log' = <<"validate">>
           ELSE /\ response' = response
                /\ pc' = "summary_get_daily"
                /\ log' = <<"validate", "call:daily">>
    /\ UNCHANGED <<res_daily, res_hourly>>

\* The daily call raises a transport error: line 103, then lines 145-146
SummaryDailyTransportError ==
    /\ pc = "summary_get_daily"
    /\ \E cls \in TransportErrors :
        response' = Finish(SummaryHandled(Raised(Exc(cls), <<>>)))
    /\ log' = log \o <<"fail:daily">>
    /\ pc' = "done"
    /\ UNCHANGED <<endpoint, lat, lon, res_daily, res_hourly>>

\* The daily call returns; the hourly call is issued: lines 103-104
SummaryDailyResponse ==
    /\ pc = "summary_get_daily"
    /\ \E res \in DailyResponses : res_daily' = res
    /\ log' = log \o <<"done:daily", "call:hourly">>
    /\ pc' = "summary_get_hourly"
    /\ UNCHANGED <<endpoint, lat, lon, res_hourly, response>>

\* The hourly call raises a transport error: line 104, then lines 145-146
SummaryHourlyTransportError ==
    /\ pc = "summary_get_hourly"
    /\ \E cls \in TransportErrors :
        response' = Finish(SummaryHandled(Raised(Exc(cls), <<>>)))
    /\ log' = log \o <<"fail:hourly">>
    /\ pc' = "done"
    /\ UNCHANGED <<endpoint, lat, lon, res_daily, res_hourly>>

\* The hourly call returns; the rest of the handler runs: lines 104-149
SummaryHourlyResponse ==
    /\ pc = "summary_get_hourly"
    /\ \E res \in HourlyResponses :
        LET result == SummaryHandled(summary_try(res_daily, res))
        IN  /\ res_hourly' = res
            /\ log' = log \o <<"done:hourly">> \o result.steps
            /\ response' = Finish(result)
    /\ pc' = "done"
    /\ UNCHANGED <<endpoint, lat, lon, res_daily>>

Next ==
    \/ ForecastRequest
    \/ ForecastTransportError
    \/ ForecastResponse
    \/ SummaryRequest
    \/ SummaryDailyTransportError
    \/ SummaryDailyResponse
    \/ SummaryHourlyTransportError
    \/ SummaryHourlyResponse

Spec == Init /\ [][Next]_vars

-----------------------------------------------------------------------------
(* Vocabulary of the properties *)

Is2xx(res) == res.status >= 200 /\ res.status <= 299

Logged(e) == \E i \in DOMAIN log : log[i] = e
Count(e) == Cardinality({i \in DOMAIN log : log[i] = e})

CallEvents == {"call:forecast", "call:daily", "call:hourly"}
FailEvents == {"fail:forecast", "fail:daily", "fail:hourly"}
AggregationEvents == {"presence_check", "aggregate"}

\* "fail:x" |-> "call:x"
CallOf(e) == CASE e = "fail:forecast" -> "call:forecast"
               [] e = "fail:daily" -> "call:daily"
               [] OTHER -> "call:hourly"

Controlled(status, detail) ==
    response = [kind |-> "http_exception", status |-> status, detail |-> detail,
                body |-> <<>>]

-----------------------------------------------------------------------------
\* C1: on both routes, coordinates outside [-90, 90] x [-180, 180] end the
\* request with a 400 and no outbound call is ever issued; coordinates inside
\* the ranges, bounds included, are not rejected and the handler goes on to
\* issue its first outbound call.
C1_ValidationGuardsFetch ==
    pc # "idle" =>
        IF lat >= -90 /\ lat <= 90 /\ lon >= -180 /\ lon <= 180
        THEN /\ Len(log) >= 2
             /\ log[2] = (IF endpoint = "forecast" THEN "call:forecast" ELSE "call:daily")
             /\ response.status # 400
        ELSE /\ Controlled(400, "Invalid coordinates")
             /\ pc = "done"
             /\ \A i \in DOMAIN log : log[i] \notin CallEvents

C1_Witness ==
    /\ endpoint = "summary"
    /\ lat = 0
    /\ lon = 181
    /\ response.status = 400
    /\ log = <<"validate">>

\* C2 (as claimed): on both routes an upstream call that completes with a
\* non-2xx status ends the request with the 503 of a transport failure.
C2_UpstreamErrorGives503 ==
    /\ (Logged("done:forecast") /\ ~Is2xx(res_daily))
            => Controlled(503, "External API error")
    /\ (Logged("done:hourly") /\ (~Is2xx(res_daily) \/ ~Is2xx(res_hourly)))
            => Controlled(503, "External API error")

\* C3: a transport failure of an outbound call is terminal: the response is
\* the 503 without data, the failed call was issued once, and no event (so
\* no further call) follows the failure; when the daily call fails the hourly
\* call is never issued.
C3_TransportFailureTerminal ==
    \A i \in DOMAIN log :
        log[i] \in FailEvents =>
            /\ i = Len(log)
            /\ pc = "done"
            /\ Controlled(503, "External API error")
            /\ Count(CallOf(log[i])) = 1
            /\ (log[i] = "fail:daily" => ~Logged("call:hourly"))

C3_Witness ==
    /\ Logged("fail:hourly")
    /\ Is2xx(res_daily)
    /\ res_daily.body.keys = DailyKeys
    /\ response.status = 503

\* C4 (as claimed): on the summary route, when both calls succeed and a
\* required field is absent, the request ends with a 500 whose message names
\* the cause (daily data missing, or hourly pressure data missing), and no
\* aggregation is performed.
C4_MissingFieldNamesCause ==
    (endpoint = "summary" /\ Logged("done:hourly") /\ Is2xx(res_daily)
     /\ Is2xx(res_hourly)) =>
        LET daily == IF res_daily.body.has_section THEN res_daily.body.keys ELSE {}
            hourly == IF res_hourly.body.has_section THEN res_hourly.body.keys ELSE {}
            daily_missing == \E k \in DailyKeys \ {"time"} : k \notin daily
            hourly_missing == \E k \in HourlyKeys : k \notin hourly
        IN  /\ daily_missing =>
                /\ Controlled(500, "Brak wymaganych danych dziennych z API.")
                /\ ~Logged("aggregate")
            /\ (~daily_missing /\ hourly_missing) =>
                /\ Controlled(500, "Brak danych godzinowych cisnienia z API.")
                /\ ~Logged("aggregate")

\* C5: for a 2xx daily payload whose five arrays each hold at least 7
\* elements, the forecast route answers 200 with exactly 7 entries, entry i
\* built from index i of each array (the energy through calculate_energy), in
\* upstream order; elements from index 7 on do not influence the answer.
C5_ForecastPositional ==
    (endpoint = "forecast" /\ Logged("done:forecast") /\ Is2xx(res_daily)
     /\ res_daily.body.has_section
     /\ \A k \in DailyKeys : k \in res_daily.body.keys /\ Len(res_daily.body[k]) >= 7) =>
        LET d == res_daily.body
        IN  /\ response.kind = "ok"
            /\ response.status = 200
            /\ Len(response.body) = 7
            /\ \A i \in 1..7 :
                response.body[i] =
                    [date |-> d.time[i], weather_code |-> d.weathercode[i],
                     temp_min |-> d.temperature_2m_min[i],
                     temp_max |-> d.temperature_2m_max[i],
                     solar_energy_kwh |-> calculate_energy(d.sunshine_duration[i])]
            /\ \A b \in DailyPayloads :
                (\A k \in DailyKeys :
                    /\ k \in b.keys
                    /\ Len(b[k]) >= 7
                    /\ SubSeq(b[k], 1, 7) = SubSeq(d[k], 1, 7))
                => Finish(ForecastHandled(forecast_try(Response(200, b)))) = response

C5_Witness ==
    /\ endpoint = "forecast"
    /\ response.kind = "ok"
    /\ Len(res_daily.body.time) > 7
    /\ Len(res_daily.body.sunshine_duration) > 7
    /\ response.body[2].solar_energy_kwh = 51

-----------------------------------------------------------------------------
(* The pressure average stated over the set of readings, without reference  *)
(* to their order of arrival.                                               *)

\* The readings: the timestamps that are paired with a pressure value
Readings(h) == 1..(IF Len(h.time) <= Len(h.pressure_msl)
                   THEN Len(h.time) ELSE Len(h.pressure_msl))

ReadingDates(h) == {h.time[i][1] : i \in Readings(h)}

ReadingsOn(h, d) == {i \in Readings(h) : h.time[i][1] = d}

\* The 7 earliest dates, or all of them when there are fewer
EarliestDates(h) ==
    {d \in ReadingDates(h) : Cardinality({e \in ReadingDates(h) : e < d}) < 7}

RECURSIVE PressureSum(_, _)
PressureSum(h, idx) ==
    IF idx = {} THEN 0
    ELSE LET i == CHOOSE j \in idx : TRUE
         IN  h.pressure_msl[i] + PressureSum(h, idx \ {i})

RECURSIVE CountProduct(_, _)
CountProduct(h, dates) ==
    IF dates = {} THEN 1
    ELSE LET d == CHOOSE e \in dates : TRUE
         IN  Cardinality(ReadingsOn(h, d)) * CountProduct(h, dates \ {d})

\* Sum over the dates of (sum of the day / readings of the day), as a
\* numerator over the common denominator CountProduct(h, EarliestDates(h))
RECURSIVE MeansNumerator(_, _, _)
MeansNumerator(h, dates, common) ==
    IF dates = {} THEN 0
    ELSE LET d == CHOOSE e \in dates : TRUE
         IN  PressureSum(h, ReadingsOn(h, d)) * (common \div Cardinality(ReadingsOn(h, d)))
             + MeansNumerator(h, dates \ {d}, common)

\* The mean of the per-date means of the earliest dates is
\* MeanNumerator(h) / MeanDenominator(h)
MeanNumerator(h) ==
    MeansNumerator(h, EarliestDates(h), CountProduct(h, EarliestDates(h)))
MeanDenominator(h) ==
    CountProduct(h, EarliestDates(h)) * Cardinality(EarliestDates(h))

SummaryOk == endpoint = "summary" /\ response.kind = "ok"

\* C6 (amended): on the summary route avg_pressure is the mean of the
\* per-date means of the k = min(7, n) earliest dates, divided by k, ROUNDED
\* TO TWO DECIMALS; readings of later dates do not enter, and the same
\* readings arriving in another order give the same value.
C6_PressureMeanRounded ==
    SummaryOk =>
        LET h == res_hourly.body
        IN  /\ ReadingDates(h) # {}
            /\ response.body[1].avg_pressure = Round2(MeanNumerator(h), MeanDenominator(h))
            /\ \A n \in 0..MaxDates : \A o \in HourlyOrders :
                h = HourlyPayload(n, o, "none") =>
                    \A o2 \in HourlyOrders :
                        avg_pressure_of(HourlyPayload(n, o2, "none"))
                            = response.body[1].avg_pressure

\* C6 (as claimed): avg_pressure equals that mean exactly.
C6_PressureMeanExact ==
    SummaryOk =>
        response.body[1].avg_pressure * MeanDenominator(res_hourly.body)
            = 100 * MeanNumerator(res_hourly.body)

C6_Witness ==
    /\ SummaryOk
    /\ Cardinality(ReadingDates(res_hourly.body)) > 7
    /\ res_hourly.body.time[1][1] # 1
    /\ Cardinality(ReadingsOn(res_hourly.body, 2)) = 2

\* C7: on the summary route weekly_summary is "z opadami" (with
\* precipitation) exactly when at least 4 entries of the whole daily
\* weathercode array lie in 51..98, and "bez opadow" (without) otherwise.
C7_RainClassification ==
    SummaryOk =>
        LET wc == res_daily.body.weathercode
            wet == {i \in DOMAIN wc : wc[i] >= 51 /\ wc[i] <= 98}
        IN  response.body[1].weekly_summary =
                (IF Cardinality(wet) >= 4 THEN "z opadami" ELSE "bez opadow")

C7_Witness ==
    /\ SummaryOk
    /\ LET wc == res_daily.body.weathercode
       IN  /\ Len(wc) = 8
           /\ Cardinality({i \in DOMAIN wc : wc[i] >= 51 /\ wc[i] <= 98}) = 4
           /\ wc[8] >= 51 /\ wc[8] <= 98
           /\ \E i \in DOMAIN wc : wc[i] = 50
           /\ \E i \in DOMAIN wc : wc[i] = 99
    /\ response.body[1].weekly_summary = "z opadami"

\* C8: on the summary route no aggregation step and no 200 comes before both
\* upstream calls have completed, and a 200 is produced only when both
\* completed with a 2xx status.
C8_JoinBeforeAggregation ==
    endpoint = "summary" =>
        /\ \A i \in DOMAIN log :
            log[i] \in AggregationEvents =>
                /\ \E j \in 1..(i - 1) : log[j] = "done:daily"
                /\ \E j \in 1..(i - 1) : log[j] = "done:hourly"
        /\ response.status = 200 =>
            /\ Logged("done:daily")
            /\ Logged("done:hourly")
            /\ Is2xx(res_daily)
            /\ Is2xx(res_hourly)
        /\ ~Logged("done:hourly") => response.kind # "ok"

C8_Witness ==
    /\ SummaryOk
    /\ Logged("aggregate")
    /\ response.status = 200

\* The presence check of the summary route passes
PresencePassed ==
    /\ endpoint = "summary"
    /\ Logged("done:hourly")
    /\ Is2xx(res_daily)
    /\ Is2xx(res_hourly)
    /\ res_daily.body.has_section
    /\ res_hourly.body.has_section
    /\ (DailyKeys \ {"time"}) \subseteq res_daily.body.keys
    /\ HourlyKeys \subseteq res_hourly.body.keys

\* C9: on the summary route, once both calls returned 2xx and the presence
\* check passed, an empty temperature_2m_min, temperature_2m_max or
\* sunshine_duration array, or an hourly payload without date groups, ends
\* the request with the controlled generic 500, never with an unhandled
\* fault, a 503 or a 200.
C9_ComputationFaultControlled ==
    (/\ PresencePassed
     /\ \/ Len(res_daily.body.temperature_2m_min) = 0
        \/ Len(res_daily.body.temperature_2m_max) = 0
        \/ Len(res_daily.body.sunshine_duration) = 0
        \/ Readings(res_hourly.body) = {}) =>
        /\ Controlled(500, "Blad przetwarzania danych")
        /\ Logged("aggregate")

C9_Witness ==
    /\ PresencePassed
    /\ Len(res_daily.body.temperature_2m_min) > 0
    /\ Len(res_daily.body.temperature_2m_max) > 0
    /\ Len(res_daily.body.sunshine_duration) > 0
    /\ Readings(res_hourly.body) = {}
    /\ response.status = 500

\* C10: on the forecast route, a 2xx payload in which one of the five arrays
\* holds fewer than 7 elements ends the request as an unhandled server
\* fault: not a 200 with fewer entries, not a controlled 400 or 503.
C10_ShortArrayUnhandled ==
    (/\ endpoint = "forecast"
     /\ Logged("done:forecast")
     /\ Is2xx(res_daily)
     /\ res_daily.body.has_section
     /\ \E k \in res_daily.body.keys : Len(res_daily.body[k]) < 7) =>
        /\ response.kind = "unhandled"
        /\ response.body = <<>>

C10_Witness ==
    /\ endpoint = "forecast"
    /\ Is2xx(res_daily)
    /\ res_daily.body.keys = DailyKeys
    /\ Len(res_daily.body.time) = 7
    /\ Len(res_daily.body.sunshine_duration) = 6
    /\ response.kind = "unhandled"

====
